---- MODULE Spec2Model ----
(***************************************************************************)
(* State-machine model of the mcp-atlassian translation layer:             *)
(*   types.py       request values (JiraIssueCreate.__post_init__)         *)
(*   jira.py        JiraManager field catalog (both package variants)      *)
(*   confluence.py  ConfluenceManager.update_page and the page readers     *)
(*   server.py      call_tool and read_resource                            *)
(*                                                                         *)
(* Text is modelled as a sequence of tokens: a token is a piece of text    *)
(* the code never looks inside.  Prefix tests, replace and split work on   *)
(* tokens.  Python dicts are functions, Optional values carry an isNone    *)
(* flag, exceptions are records holding the exception type, the message    *)
(* template and the values formatted into it.                              *)
(***************************************************************************)
EXTENDS Integers, Sequences, FiniteSets, TLC

\* ------------------------------------------------------------------ bounds
MaxFields == 2      \* entries in the remote field listing
MaxVersion == 3     \* highest remote page version explored
MaxPathTokens == 5  \* tokens after the scheme of a resource URI
MaxHits == 2        \* hits of one remote search

\* ------------------------------------------------------- Python-like values
None == "None"

EmptyDict == [k \in {} |-> ""]

\* Optional[Dict]: isNone tells None from a dict
NoneDict == [isNone |-> TRUE, d |-> EmptyDict]
SomeDict(d) == [isNone |-> FALSE, d |-> d]

\* bool(x) of an Optional[Dict]: None and {} are falsy
TruthyDict(o) == (~o.isNone) /\ (DOMAIN o.d # {})

\* str.startswith on token text
StartsWith(s, prefix) == Len(s) > 0 /\ s[1] = prefix

\* an exception: type, message template, strings and integers formatted in
Exc(type, text, strs, ints) == [exc |-> type, text |-> text, strs |-> strs, ints |-> ints]
NoExc == Exc("", "", <<>>, <<>>)

\* dict.update / item assignment: entries of e replace or extend d
DictUpdate(d, e) == [k \in (DOMAIN d) \cup (DOMAIN e) |-> IF k \in DOMAIN e THEN e[k] ELSE d[k]]
DictSet(d, k, v) == DictUpdate(d, [x \in {k} |-> v])

\* ------------------------------------------------------------ field names
CF(n) == <<"customfield_", n>>
EpicName == <<"Epic Name">>
EpicLink == <<"Epic Link">>
AcceptanceCriteria == <<"Acceptance Criteria">>
StoryPoints == <<"Story Points">>
Sprint == <<"Sprint">>

\* JiraManager.CUSTOM_FIELD_MAPPINGS as the class body defines it
CUSTOM_FIELD_MAPPINGS(v) ==
    IF v = "ib"
    THEN (EpicName :> CF("10021")) @@ (EpicLink :> CF("10019"))
         @@ (AcceptanceCriteria :> CF("11738"))
    ELSE (EpicName :> CF("10021")) @@ (EpicLink :> CF("10019"))
         @@ (AcceptanceCriteria :> CF("11738")) @@ (StoryPoints :> CF("10026"))

Variants == {"base", "ib"}

VARIABLES
    variant,      \* which jira.py is loaded: mcp_atlassian or mcp_atlassian_ib
    catalog,      \* JiraManager.CUSTOM_FIELD_MAPPINGS
    constructed,  \* JiraManager.__init__ has returned
    discovery,    \* _init_custom_fields: how far it is, and its local listing
    lookup,       \* last _get_custom_field_id call
    built,        \* last JiraIssueCreate construction
    pages,        \* remote Confluence pages
    upd,          \* the running ConfluenceManager.update_page call
    toolOut,      \* last call_tool invocation
    resOut,       \* last read_resource invocation
    mgrOut        \* last direct call of a manager's create or update method

vars == <<variant, catalog, constructed, discovery, lookup, built, pages, upd, toolOut, resOut, mgrOut>>

\* ---------------------------------------------------------------- types.py
IssueTypes == {"Epic", "Story", "Bug", "Task", "epic"}
EpicLinks == {None, "", "DEV-1"}
OptCustomDicts ==
    {NoneDict} \cup {SomeDict(d) : d \in UNION {[S -> {"", "v"}] :
                                      S \in SUBSET {AcceptanceCriteria, <<"Nope">>}}}

NoIssueCreate == [project_key |-> "", summary |-> "", description |-> "",
                  issue_type |-> "", epic_link |-> None, custom_fields |-> NoneDict]

\* self.custom_fields or {}
CustomFieldsOrEmpty_Keep(cf) == cf
CustomFieldsOrEmpty(cf) == IF TruthyDict(cf) THEN cf ELSE SomeDict(EmptyDict)

IssueTypeAllowed_Any(t) == t \in {"Epic", "Story", "Bug"}
IssueTypeAllowed(t) == t \in {"Epic", "Story"}

EpicWithLink_Never(t, link) == FALSE
EpicWithLink(t, link) == t = "Epic" /\ link # None

\* JiraIssueCreate(...): the dataclass __init__ followed by __post_init__
JiraIssueCreate(project_key, summary, description, issue_type, epic_link, custom_fields) ==
    IF ~IssueTypeAllowed(issue_type)
    THEN [ok |-> FALSE, obj |-> NoIssueCreate,
          error |-> Exc("ValueError", "issue_type must be either 'Epic' or 'Story'", <<>>, <<>>)]
    ELSE IF EpicWithLink(issue_type, epic_link)
    THEN [ok |-> FALSE, obj |-> NoIssueCreate,
          error |-> Exc("ValueError", "Epic issues cannot have an epic_link", <<>>, <<>>)]
    ELSE [ok |-> TRUE,
          obj |-> [project_key |-> project_key, summary |-> summary,
                   description |-> description, issue_type |-> issue_type,
                   epic_link |-> epic_link,
                   custom_fields |-> CustomFieldsOrEmpty(custom_fields)],
          error |-> NoExc]

NotBuilt == [called |-> FALSE, args |-> NoIssueCreate,
             ok |-> FALSE, obj |-> NoIssueCreate, error |-> NoExc]

Construct ==
    \E pk \in {"DEV"}, s \in {"X"}, desc \in {""}, t \in IssueTypes,
       link \in EpicLinks, cf \in OptCustomDicts :
        LET r == JiraIssueCreate(pk, s, desc, t, link, cf)
        IN built' = [called |-> TRUE,
                     args |-> [project_key |-> pk, summary |-> s, description |-> desc,
                               issue_type |-> t, epic_link |-> link, custom_fields |-> cf],
                     ok |-> r.ok, obj |-> r.obj, error |-> r.error]
    /\ UNCHANGED <<variant, discovery, mgrOut, catalog, constructed, lookup, pages, upd, toolOut, resOut>>

\* ----------------------------------------------------------------- jira.py
\* the remote field listing (jira.get_all_fields): entries may lack 'name'.
\* The loop reads nothing of an entry that is not custom and no name of an
\* entry that has none, so one entry stands for each of these.
RemoteFields ==
    {f \in [custom : BOOLEAN, hasName : BOOLEAN, name : {EpicName, Sprint},
            id : {CF("10019"), CF("10500"), <<"summary">>}] :
        /\ ~f.custom => (f.hasName /\ f.name = Sprint /\ f.id = <<"summary">>)
        /\ ~f.hasName => f.name = Sprint}

RECURSIVE SeqsUpTo(_, _)
SeqsUpTo(S, n) ==
    IF n = 0 THEN {<<>>}
    ELSE LET shorter == SeqsUpTo(S, n - 1)
         IN shorter \cup {Append(q, x) : q \in {p \in shorter : Len(p) = n - 1}, x \in S}

FieldListings == SeqsUpTo(RemoteFields, MaxFields)

\* variant that rebuilds the mapping from the entry at hand
IndexField_Fresh(v, cat, f) == [n \in {f.name} |-> f.id]

\* one iteration of the loop of _init_custom_fields
IndexField(v, cat, f) ==
    LET byName == DictSet(cat, f.name, f.id)
    IN IF v = "ib" /\ StartsWith(f.id, "customfield_")
       THEN DictSet(byName, f.id, f.id)
       ELSE byName

\* the loop: stops at the first entry whose access raises (KeyError on 'name')
RECURSIVE InitLoop(_, _, _, _)
InitLoop(v, cat, fields, i) ==
    IF i > Len(fields) THEN [cat |-> cat, failed |-> FALSE]
    ELSE LET f == fields[i]
         IN IF ~f.custom THEN InitLoop(v, cat, fields, i + 1)
            ELSE IF ~f.hasName THEN [cat |-> cat, failed |-> TRUE]
            ELSE InitLoop(v, IndexField(v, cat, f), fields, i + 1)

\* JiraManager._init_custom_fields; listingFails: get_all_fields raised
InitCustomFields(v, cat, listingFails, fields) ==
    IF listingFails THEN [cat |-> cat, failed |-> TRUE]
    ELSE InitLoop(v, cat, fields, 1)


\* JiraManager.__init__ up to the end of _init_custom_fields (module level of
\* server.py constructs the manager); fields is the local of the discovery pass
JiraManagerInit ==
    /\ discovery.status = "pending"
    /\ \E listingFails \in BOOLEAN, fields \in FieldListings :
          LET done == InitCustomFields(variant, catalog, listingFails, fields)
          IN /\ listingFails => fields = <<>>
             /\ catalog' = done.cat
             /\ discovery' = [status |-> IF done.failed THEN "failed" ELSE "ok",
                              fields |-> fields]
    /\ UNCHANGED <<variant, constructed, mgrOut, lookup, built, pages, upd, toolOut, resOut>>

\* __init__ returns: the except clause of _init_custom_fields swallowed any
\* failure, its locals are gone, the manager is in use from here on
JiraManagerReturn ==
    /\ discovery.status \in {"ok", "failed"}
    /\ ~constructed
    /\ constructed' = TRUE
    /\ discovery' = [status |-> "done", fields |-> <<>>]
    /\ UNCHANGED <<variant, catalog, mgrOut, lookup, built, pages, upd, toolOut, resOut>>

Found(id) == [isNone |-> FALSE, id |-> id]
NotFound == [isNone |-> TRUE, id |-> <<>>]

\* dict.get(name): the stored value or None
DictGet(cat, name) == IF name \in DOMAIN cat THEN Found(cat[name]) ELSE NotFound

\* variant that trusts any identifier in canonical form without a lookup
GetCustomFieldId_Trusting(v, cat, field_name) ==
    IF StartsWith(field_name, "customfield_") THEN Found(field_name)
    ELSE DictGet(cat, field_name)

\* JiraManager._get_custom_field_id
GetCustomFieldId(v, cat, field_name) ==
    IF v = "ib" /\ StartsWith(field_name, "customfield_")
    THEN LET field_id == DictGet(cat, field_name)
         IN IF ~field_id.isNone THEN field_id ELSE NotFound
    ELSE DictGet(cat, field_name)

LookupNames == {EpicName, EpicLink, StoryPoints, Sprint, CF("10021"), CF("10500"),
                CF("99999"), <<"Nope">>, <<"summary">>}

NoLookup == [called |-> FALSE, name |-> <<>>, result |-> NotFound, before |-> EmptyDict]

ResolveField ==
    /\ constructed
    /\ \E n \in LookupNames :
          lookup' = [called |-> TRUE, name |-> n,
                     result |-> GetCustomFieldId(variant, catalog, n),
                     before |-> catalog]
    /\ UNCHANGED <<variant, discovery, mgrOut, catalog, constructed, built, pages, upd, toolOut, resOut>>

\* ----------------------------------------------------------- confluence.py
PageId == "P1"
NoPage == [exists |-> FALSE, version |-> 1, title |-> "T0", body |-> "b0"]

ConfluencePageUpdate(page_id, title, content, version) ==
    [page_id |-> page_id, title |-> title, content |-> content, version |-> version]

\* Document(page_content, metadata) of a page; the content went through
\* the text-conversion collaborator (markdown of the stored body)
NoDoc == [page_content |-> <<>>, metadata |-> [page_id |-> "", title |-> "", version |-> 0]]
PageDocument(page_id, page) ==
    [page_content |-> <<"markdown", page.body>>,
     metadata |-> [page_id |-> page_id, title |-> page.title, version |-> page.version]]

Raised(e) == [ok |-> FALSE, doc |-> NoDoc, error |-> e]

RemoteFailure(call) == Exc("RemoteError", "remote call failed: {}", <<call>>, <<>>)

IdleUpd == [pc |-> "idle", req |-> ConfluencePageUpdate("", "", "", 0),
            fetched |-> FALSE, cur |-> 0, calls |-> <<>>, wrote |-> FALSE,
            verAtWrite |-> 0, result |-> [ok |-> FALSE, doc |-> NoDoc, error |-> NoExc]]

\* the comparison of update_page: current_version != request.version
VersionMismatch_Newer(current_version, requested) == current_version > requested
VersionMismatch(current_version, requested) == current_version # requested

\* update_page up to the version check: the remote fetch (which may raise, or
\* return nothing for a page the remote does not know) and the two checks
UpdatePageFetch ==
    /\ upd.pc = "idle"
    /\ \E v \in (0 .. MaxVersion), fails \in BOOLEAN :
        LET req == ConfluencePageUpdate(PageId, "T", "mine", v)
            page == pages[PageId]
            base == [upd EXCEPT !.req = req, !.calls = <<"get_page_by_id">>]
        IN upd' =
            IF fails
            THEN [base EXCEPT !.pc = "done",
                              !.result = Raised(RemoteFailure("get_page_by_id"))]
            ELSE IF ~page.exists
            THEN [base EXCEPT !.pc = "done",
                              !.result = Raised(Exc("ValueError", "Page {} does not exist",
                                                    <<req.page_id>>, <<>>))]
            ELSE IF VersionMismatch(page.version, req.version)
            THEN [base EXCEPT !.pc = "done", !.fetched = TRUE, !.cur = page.version,
                              !.result = Raised(Exc("ValueError",
                                  "Version conflict: current version is {}, but update requested for version {}",
                                  <<>>, <<page.version, req.version>>))]
            ELSE [base EXCEPT !.pc = "write", !.fetched = TRUE, !.cur = page.version]
    /\ UNCHANGED <<variant, discovery, mgrOut, catalog, constructed, lookup, built, pages, toolOut, resOut>>

\* the remote update call: it carries page id, title and body, no version,
\* so the remote applies it to whatever version it holds
UpdatePageWrite ==
    /\ upd.pc = "write"
    /\ \E fails \in BOOLEAN :
        LET page == pages[upd.req.page_id]
            issued == [upd EXCEPT !.calls = Append(upd.calls, "update_page")]
        IN IF fails \/ ~page.exists
           THEN /\ upd' = [issued EXCEPT !.pc = "done",
                                         !.result = Raised(RemoteFailure("update_page"))]
                /\ pages' = pages
           ELSE /\ page.version < MaxVersion
                /\ pages' = [pages EXCEPT ![upd.req.page_id] =
                                [exists |-> TRUE, version |-> page.version + 1,
                                 title |-> upd.req.title, body |-> upd.req.content]]
                /\ upd' = [issued EXCEPT !.pc = "read", !.wrote = TRUE,
                                         !.verAtWrite = page.version]
    /\ UNCHANGED <<variant, discovery, mgrOut, catalog, constructed, lookup, built, toolOut, resOut>>

\* return self.get_page_content(page["id"]): one more remote read
UpdatePageReturn ==
    /\ upd.pc = "read"
    /\ \E fails \in BOOLEAN :
        LET page == pages[upd.req.page_id]
            issued == [upd EXCEPT !.calls = Append(upd.calls, "get_page_by_id"), !.pc = "done"]
        IN upd' = IF fails \/ ~page.exists
                  THEN [issued EXCEPT !.result = Raised(RemoteFailure("get_page_by_id"))]
                  ELSE [issued EXCEPT !.result = [ok |-> TRUE, error |-> NoExc,
                                                  doc |-> PageDocument(upd.req.page_id, page)]]
    /\ UNCHANGED <<variant, discovery, mgrOut, catalog, constructed, lookup, built, pages, toolOut, resOut>>

\* the caller has the outcome; the manager is ready for the next call
UpdatePageDone ==
    /\ upd.pc = "done"
    /\ upd' = IdleUpd
    /\ UNCHANGED <<variant, discovery, mgrOut, catalog, constructed, lookup, built, pages, toolOut, resOut>>

\* another client of the remote service edits the page, or deletes it
OtherWriter ==
    /\ pages[PageId].exists
    /\ \/ /\ pages[PageId].version < MaxVersion
          /\ pages' = [pages EXCEPT ![PageId] =
                          [@ EXCEPT !.version = @ + 1, !.body = "other"]]
       \/ pages' = [pages EXCEPT ![PageId] = NoPage]
    /\ UNCHANGED <<variant, discovery, mgrOut, catalog, constructed, lookup, built, upd, toolOut, resOut>>

\* ------------------------------------------------- jira.py: get_issue

\* what the remote returns for jira.issue(key): the fields get_issue reads
\* and the number of characters its rendering has
\* the JSON number 0 among field values (a value is one token; this token
\* stands for the number: Story Points of an unestimated-as-zero issue)
Zero == "0"

\* `if value`: the empty string, null and the number 0 are false
Truthy(value) == value \notin {"", None, Zero}

RemoteIssueOf(key) ==
    IF key = "DEV-1"
    THEN [summary |-> "X", type |-> "Epic", status |-> "Open",
          created |-> <<"2024-01-05", "T10:00:00", "Z">>,
          custom |-> (CF("10021") :> "X") @@ (CF("11738") :> None), rendered |-> 600]
    ELSE [summary |-> "Y", type |-> "Story", status |-> "Done",
          created |-> <<"2024-02-29", "T23:59:59", "Z">>,
          custom |-> (CF("10019") :> "DEV-1") @@ (CF("11738") :> "")
                     @@ (CF("10026") :> Zero) @@ (CF("10500") :> "S1"),
          rendered |-> 500]

\* datetime.fromisoformat(ts.replace("Z", "+00:00")).strftime("%Y-%m-%d")
FormatDate(ts) == ts[1]

\* custom_fields of get_issue: catalog names whose identifier the issue carries
IssueCustomFields(cat, issue) ==
    [n \in {m \in DOMAIN cat : cat[m] \in DOMAIN issue.custom} |-> issue.custom[cat[n]]]

\* the lines of the "Custom Fields" section
CustomFieldLines(v, custom_fields) ==
    [n \in {m \in DOMAIN custom_fields :
              /\ Truthy(custom_fields[m])
              /\ (v = "ib" => ~StartsWith(m, "customfield_"))} |-> custom_fields[n]]

\* JiraManager.get_issue on a fetched issue
IssueDocument(v, cat, key, issue) ==
    LET custom_fields == IssueCustomFields(cat, issue)
    IN [page_content |-> [issue |-> key, title |-> issue.summary, type |-> issue.type,
                          status |-> issue.status, created |-> FormatDate(issue.created),
                          section |-> (DOMAIN custom_fields # {}),
                          lines |-> CustomFieldLines(v, custom_fields),
                          len |-> issue.rendered],
        metadata |-> [key |-> key, title |-> issue.summary, type |-> issue.type,
                      status |-> issue.status, created_date |-> FormatDate(issue.created),
                      custom_fields |-> custom_fields]]

\* -------------------------------------- jira.py: create_issue, update_issue
\* one call on the remote client and how it answered: "raised", "none"
\* (a falsy result), "ok", or for an issue lookup the type of the issue found
RemoteCall(op, answer) == [op |-> op, answer |-> answer]
Answers == {"raised", "none", "ok"}
WriteAnswers == {"raised", "ok"}

\* the calls that change the remote system
MutatingOps == {"create_issue", "put", "update_issue_field", "create_page"}

\* `if not project`, `if not epic`, `if not current_issue`, `if not space`
Falsy_Never(answer) == FALSE
Falsy(answer) == answer = "none"

NoMgrOut == [called |-> FALSE, op |-> "", request |-> NoIssueCreate, ok |-> FALSE,
             error |-> NoExc, doc |-> NoDoc, calls |-> <<>>, sent |-> NoneDict]
\* `except Exception as e: logger.error(...); raise`: the exception leaves
\* the manager, nothing is called again
MgrRaised_Retried(op, request, e, calls, sent) ==
    [called |-> TRUE, op |-> op, request |-> request, ok |-> FALSE,
     error |-> e, doc |-> NoDoc, calls |-> Append(calls, calls[Len(calls)]), sent |-> sent]
MgrRaised(op, request, e, calls, sent) ==
    [called |-> TRUE, op |-> op, request |-> request, ok |-> FALSE,
     error |-> e, doc |-> NoDoc, calls |-> calls, sent |-> sent]
MgrReturned(op, request, doc, calls, sent) ==
    [called |-> TRUE, op |-> op, request |-> request, ok |-> TRUE,
     error |-> NoExc, doc |-> doc, calls |-> calls, sent |-> sent]

\* the names of a dict that resolve in the catalog (`if field_id:`)
ResolvingNames(v, cat, d) == {n \in DOMAIN d : ~GetCustomFieldId(v, cat, n).isNone}

\* the catalog's identifier of a name (`if field_id:` truthy only)
FieldId(v, cat, n) == GetCustomFieldId(v, cat, n).id

\* the dicts a loop `for name, value in d.items(): out[Key(name)] = value` can
\* build: a dict is unordered here, so where two names get the same key the
\* value of either may be the last one written
Rekeyed(d, names, key) ==
    LET keys == {key[n] : n \in names}
    IN {out \in [keys -> {d[n] : n \in names}] :
           \A k \in keys : \E n \in names : key[n] = k /\ d[n] = out[k]}

\* JiraManager._process_custom_fields (inline loop of create_issue in the ib
\* variant): names that do not resolve are skipped
ProcessCustomFields(v, cat, custom_fields) ==
    LET names == ResolvingNames(v, cat, custom_fields)
    IN Rekeyed(custom_fields, names, [n \in names |-> FieldId(v, cat, n)])

StandardKeys == {<<"project">>, <<"summary">>, <<"description">>, <<"issuetype">>}

\* the fields dict of create_issue before the type-specific part
BaseFields(request) ==
    (<<"project">> :> request.project_key) @@ (<<"summary">> :> request.summary)
    @@ (<<"description">> :> request.description)
    @@ (<<"issuetype">> :> request.issue_type)

\* fields[id] = value when the name resolves, nothing otherwise
SetIfResolved(v, cat, fields, name, value) ==
    IF GetCustomFieldId(v, cat, name).isNone THEN fields
    ELSE DictSet(fields, FieldId(v, cat, name), value)

\* the remote stores what it was sent: the issue a later fetch returns
NewKey == "DEV-9"
CreatedIssue(fields) ==
    [summary |-> fields[<<"summary">>], type |-> fields[<<"issuetype">>],
     status |-> "To Do", created |-> <<"2024-03-01", "T08:00:00", "Z">>,
     custom |-> [k \in (DOMAIN fields) \ StandardKeys |-> fields[k]],
     rendered |-> 80]

\* variant in which a key create_issue has already set keeps its value
FieldsUpdate_KeepOwn(fields, processed) == DictUpdate(processed, fields)

\* fields.update(processed_fields) (fields[field_id] = value in the ib
\* variant): the caller's custom fields are written last
FieldsUpdate(fields, processed) == DictUpdate(fields, processed)

MgrOptCustomDicts ==
    {NoneDict} \cup {SomeDict(d) : d \in UNION {[S -> {"v"}] :
                                      S \in SUBSET {EpicName, EpicLink, CF("10019"), Sprint, <<"Nope">>}}}

\* JiraManager.create_issue; project, epic, created, fetched: how the remote
\* answered jira.project, jira.issue(epic_link), jira.create_issue and the
\* jira.issue of get_issue; processed: the dict _process_custom_fields built
CreateIssue(v, cat, request, project, epic, processed, created, fetched) ==
    LET op == "create_issue"
        linked == request.issue_type = "Story" /\ request.epic_link \notin {None, ""}
        typed == IF request.issue_type = "Epic"
                 THEN SetIfResolved(v, cat, BaseFields(request), EpicName, request.summary)
                 ELSE IF linked
                 THEN SetIfResolved(v, cat, BaseFields(request), EpicLink, request.epic_link)
                 ELSE BaseFields(request)
        fields == IF TruthyDict(request.custom_fields)
                  THEN FieldsUpdate(typed, processed) ELSE typed
        c1 == <<RemoteCall("project", project)>>
        c2 == IF linked THEN Append(c1, RemoteCall("issue", epic)) ELSE c1
        c3 == Append(c2, RemoteCall("create_issue", created))
        c4 == Append(c3, RemoteCall("issue", fetched))
    IN IF project = "raised"
       THEN MgrRaised(op, request, RemoteFailure("project"), c1, NoneDict)
       ELSE IF Falsy(project)
       THEN MgrRaised(op, request,
                      Exc("ValueError", "Project {} does not exist",
                          <<request.project_key>>, <<>>), c1, NoneDict)
       ELSE IF linked /\ epic = "raised"
       THEN MgrRaised(op, request, RemoteFailure("issue"), c2, NoneDict)
       ELSE IF linked /\ (Falsy(epic) \/ epic # "Epic")
       THEN MgrRaised(op, request,
                      Exc("ValueError", "Invalid epic link: {}",
                          <<request.epic_link>>, <<>>), c2, NoneDict)
       ELSE IF created = "raised"
       THEN MgrRaised(op, request, RemoteFailure("create_issue"), c3, SomeDict(fields))
       ELSE IF fetched = "raised"
       THEN MgrRaised(op, request, RemoteFailure("issue"), c4, SomeDict(fields))
       ELSE MgrReturned(op, request,
                        IssueDocument(v, cat, NewKey, CreatedIssue(fields)),
                        c4, SomeDict(fields))

\* a caller builds a JiraIssueCreate and passes it to create_issue
CreateIssueCall ==
    /\ constructed
    /\ ~mgrOut.called /\ ~toolOut.called /\ ~resOut.called
    /\ \E t \in {"Epic", "Story"}, link \in EpicLinks, cf \in MgrOptCustomDicts,
          project \in Answers, epic \in {"raised", "none", "Epic", "Story"},
          created \in WriteAnswers, fetched \in WriteAnswers :
          LET r == JiraIssueCreate("DEV", "X", "", t, link, cf)
          IN /\ r.ok
             /\ \E processed \in ProcessCustomFields(variant, catalog,
                                                     r.obj.custom_fields.d) :
                   mgrOut' = CreateIssue(variant, catalog, r.obj, project, epic,
                                         processed, created, fetched)
    /\ UNCHANGED <<variant, catalog, constructed, discovery, lookup, built, pages,
                   upd, toolOut, resOut>>

\* types.JiraIssueUpdate
JiraIssueUpdate(issue_key, fields) == [issue_key |-> issue_key, fields |-> fields]

UpdateDicts == UNION {[S -> {"v"}] : S \in SUBSET {<<"Summary">>, Sprint, <<"Nope">>}}

\* str.lower(), token by token
Lower(s) ==
    [i \in 1 .. Len(s) |->
        CASE s[i] = "Summary" -> "summary"
          [] s[i] = "Sprint" -> "sprint"
          [] s[i] = "Nope" -> "nope"
          [] s[i] = "Epic Name" -> "epic name"
          [] s[i] = "Epic Link" -> "epic link"
          [] s[i] = "Acceptance Criteria" -> "acceptance criteria"
          [] s[i] = "Story Points" -> "story points"
          [] OTHER -> s[i]]

\* variant that sends an unresolved name as it was written
UpdateKey_Verbatim(v, cat, field_name) ==
    IF ~GetCustomFieldId(v, cat, field_name).isNone THEN FieldId(v, cat, field_name)
    ELSE field_name

\* the key update_issue files a value under: the catalog's identifier, or
\* the lower-cased name as a standard field
UpdateKey(v, cat, field_name) ==
    IF ~GetCustomFieldId(v, cat, field_name).isNone THEN FieldId(v, cat, field_name)
    ELSE Lower(field_name)

\* the loop of update_issue over request.fields
UpdateFields(v, cat, fields) ==
    Rekeyed(fields, DOMAIN fields, [n \in DOMAIN fields |-> UpdateKey(v, cat, n)])

\* the remote stores what it was sent: the issue after the update
UpdatedIssue(issue, fields) ==
    LET custom == [k \in {x \in DOMAIN fields : StartsWith(x, "customfield_")} |-> fields[k]]
    IN [issue EXCEPT !.summary = IF <<"summary">> \in DOMAIN fields
                                 THEN fields[<<"summary">>] ELSE @,
                     !.custom = DictUpdate(@, custom)]

\* the mutating call of update_issue: a PUT on the session, whose status the
\* code checks, or update_issue_field of the client in the ib variant
UpdateOp(v) == IF v = "ib" THEN "update_issue_field" ELSE "put"

\* JiraManager.update_issue; current, written, fetched: how the remote
\* answered jira.issue, the mutating call and the jira.issue of get_issue
UpdateIssue(v, cat, request, current, fields, written, fetched) ==
    LET op == "update_issue"
        c1 == <<RemoteCall("issue", current)>>
        c2 == Append(c1, RemoteCall(UpdateOp(v), written))
        c3 == Append(c2, RemoteCall("issue", fetched))
    IN IF current = "raised"
       THEN MgrRaised(op, request, RemoteFailure("issue"), c1, NoneDict)
       ELSE IF Falsy(current)
       THEN MgrRaised(op, request,
                      Exc("ValueError", "Issue {} does not exist",
                          <<request.issue_key>>, <<>>), c1, NoneDict)
       ELSE IF written = "raised"
       THEN MgrRaised(op, request, RemoteFailure(UpdateOp(v)), c2, SomeDict(fields))
       ELSE IF written = "rejected"
       THEN MgrRaised(op, request,
                      Exc("ValueError", "Failed to update issue. Status: {}, Response: {}",
                          <<"body">>, <<400>>), c2, SomeDict(fields))
       ELSE IF fetched = "raised"
       THEN MgrRaised(op, request, RemoteFailure("issue"), c3, SomeDict(fields))
       ELSE MgrReturned(op, request,
                        IssueDocument(v, cat, request.issue_key,
                                      UpdatedIssue(RemoteIssueOf(request.issue_key), fields)),
                        c3, SomeDict(fields))

\* a caller builds a JiraIssueUpdate and passes it to update_issue
UpdateIssueCall ==
    /\ constructed
    /\ ~mgrOut.called /\ ~toolOut.called /\ ~resOut.called
    /\ \E d \in UpdateDicts, current \in {"raised", "none", "Story"},
          written \in (IF variant = "ib" THEN WriteAnswers
                        ELSE WriteAnswers \cup {"rejected"}),
          fetched \in WriteAnswers :
          \E fields \in UpdateFields(variant, catalog, d) :
             mgrOut' = UpdateIssue(variant, catalog, JiraIssueUpdate("DEV-2", d),
                                   current, fields, written, fetched)
    /\ UNCHANGED <<variant, catalog, constructed, discovery, lookup, built, pages,
                   upd, toolOut, resOut>>

\* ------------------------------------------------ confluence.py: create_page
\* types.ConfluencePageCreate
ConfluencePageCreate(space_key, title, content, parent_id) ==
    [space_key |-> space_key, title |-> title, content |-> content,
     parent_id |-> parent_id]


\* ConfluenceManager.create_page; space, created, fetched: how the remote
\* answered get_space, create_page and the get_page_by_id of get_page_content
CreatePage(request, space, created, fetched) ==
    LET op == "create_page"
        c1 == <<RemoteCall("get_space", space)>>
        c2 == Append(c1, RemoteCall("create_page", created))
        c3 == Append(c2, RemoteCall("get_page_by_id", fetched))
        sent == SomeDict((<<"space">> :> request.space_key)
                         @@ (<<"title">> :> request.title)
                         @@ (<<"body">> :> request.content)
                         @@ (<<"parent_id">> :> request.parent_id)
                         @@ (<<"representation">> :> "wiki"))
    IN IF space = "raised"
       THEN MgrRaised(op, request, RemoteFailure("get_space"), c1, NoneDict)
       ELSE IF Falsy(space)
       THEN MgrRaised(op, request,
                      Exc("ValueError", "Space {} does not exist",
                          <<request.space_key>>, <<>>), c1, NoneDict)
       ELSE IF created = "raised"
       THEN MgrRaised(op, request, RemoteFailure("create_page"), c2, sent)
       ELSE IF fetched = "raised"
       THEN MgrRaised(op, request, RemoteFailure("get_page_by_id"), c3, sent)
       ELSE MgrReturned(op, request,
                        PageDocument("P9",
                                     [exists |-> TRUE, version |-> 1,
                                      title |-> request.title, body |-> request.content]),
                        c3, sent)

\* a caller builds a ConfluencePageCreate and passes it to create_page (the
\* module level of server.py constructs both managers before any request)
CreatePageCall ==
    /\ constructed
    /\ ~mgrOut.called /\ ~toolOut.called /\ ~resOut.called
    /\ \E parent \in {None, PageId}, space \in Answers,
          created \in WriteAnswers, fetched \in WriteAnswers :
          mgrOut' = CreatePage(ConfluencePageCreate("DEV", "T", "mine", parent),
                               space, created, fetched)
    /\ UNCHANGED <<variant, catalog, constructed, discovery, lookup, built, pages,
                   upd, toolOut, resOut>>

\* the Document or the exception went back to the caller
MgrReturn ==
    /\ mgrOut.called
    /\ mgrOut' = NoMgrOut
    /\ UNCHANGED <<variant, catalog, constructed, discovery, lookup, built, pages,
                   upd, toolOut, resOut>>

\* ---------------------------------------------------------------- server.py
Tools == {"confluence_search", "confluence_get_page", "confluence_create_page",
          "confluence_update_page", "confluence_get_comments", "jira_get_issue",
          "jira_create_epic", "jira_create_story", "jira_update_issue",
          "jira_search", "jira_get_project_issues"}
CreateUpdateTools == {"confluence_create_page", "confluence_update_page",
                      "jira_create_epic", "jira_create_story", "jira_update_issue"}
SearchTools == {"confluence_search", "jira_search", "jira_get_project_issues"}
ToolNames == Tools \cup {"jira_delete_issue", "confluence_search2", ""}

\* names bound in the namespace of server.py: its imports and module level
ModuleNames == {"json", "logging", "Sequence", "Any", "Server", "Resource", "TextContent",
                "Tool", "AnyUrl", "ConfluenceManager", "JiraManager", "logger",
                "confluence_manager", "jira_manager", "app"}

\* the request class a create/update branch names before it reads arguments
RequestClass(name) ==
    CASE name = "confluence_create_page" -> "ConfluencePageCreate"
      [] name = "confluence_update_page" -> "ConfluencePageUpdate"
      [] name \in {"jira_create_epic", "jira_create_story"} -> "JiraIssueCreate"
      [] name = "jira_update_issue" -> "JiraIssueUpdate"
      [] OTHER -> "TextContent"

\* the properties of each inputSchema and its "required" list
ArgNames(name) ==
    CASE name = "confluence_search" -> {"query", "limit"}
      [] name = "confluence_get_page" -> {"page_id", "include_metadata"}
      [] name = "confluence_create_page" -> {"space_key", "title", "content", "parent_id"}
      [] name = "confluence_update_page" -> {"page_id", "title", "content", "version"}
      [] name = "confluence_get_comments" -> {"page_id"}
      [] name = "jira_get_issue" -> {"issue_key", "expand"}
      [] name = "jira_create_epic" -> {"project_key", "summary", "description", "custom_fields"}
      [] name = "jira_create_story" -> {"project_key", "summary", "description", "epic_link",
                                        "custom_fields"}
      [] name = "jira_update_issue" -> {"issue_key", "fields"}
      [] name = "jira_search" -> {"jql", "fields", "limit"}
      [] name = "jira_get_project_issues" -> {"project_key", "limit"}
      [] OTHER -> {}
RequiredArgs(name) ==
    CASE name = "confluence_search" -> {"query"}
      [] name = "confluence_get_page" -> {"page_id"}
      [] name = "confluence_create_page" -> {"space_key", "title", "content"}
      [] name = "confluence_update_page" -> {"page_id", "title", "content", "version"}
      [] name = "confluence_get_comments" -> {"page_id"}
      [] name = "jira_get_issue" -> {"issue_key"}
      [] name = "jira_create_epic" -> {"project_key", "summary"}
      [] name = "jira_create_story" -> {"project_key", "summary"}
      [] name = "jira_update_issue" -> {"issue_key", "fields"}
      [] name = "jira_search" -> {"jql"}
      [] name = "jira_get_project_issues" -> {"project_key"}
      [] OTHER -> {}

\* a JSON number is kept in halves: Num(3) is 3, the odd value 5 is 2.5
Num(n) == 2 * n
IsInteger(h) == h % 2 = 0
LimitArgs == {Num(-1), -1, Num(0), Num(1), 5, Num(10), Num(50), 101, Num(51), Num(999)}

\* int(x): truncation toward zero
PyInt(h) == IF h >= 0 THEN h \div 2 ELSE -((-h) \div 2)
Min(a, b) == IF a <= b THEN a ELSE b

DefaultLimit == 10
LimitCap == 50
ExcerptChars == 500

\* min(int(arguments.get("limit", 10)), 50)
EffectiveLimit(args) ==
    Min(PyInt(IF "limit" \in args.keys THEN args.limit ELSE Num(DefaultLimit)), LimitCap)

Call(svc, op, limit) == [svc |-> svc, op |-> op, limit |-> limit, answer |-> "ok"]

\* the last call of a log answered otherwise: "raised", or "none" for no result
Answered(remote, answer) == [remote EXCEPT ![Len(remote)].answer = answer]

\* json.dumps(value, indent=2) and the TextContent around it
JsonDumps(value) == [json |-> value, indent |-> 2]
TextContent(text) == [type |-> "text", text |-> text]

KeyError(key) == Exc("KeyError", "'{}'", <<key>>, <<>>)
NameError(n) == Exc("NameError", "name '{}' is not defined", <<n>>, <<>>)

\* raise RuntimeError(f"Tool execution failed: {str(e)}")
ToolFailure(e) == [exc |-> "RuntimeError", prefix |-> "Tool execution failed: ",
                   text |-> e.text, strs |-> e.strs, ints |-> e.ints]
NoFailure == [exc |-> "", prefix |-> "", text |-> "", strs |-> <<>>, ints |-> <<>>]

\* hits: the issue keys the remote query returned (empty for other tools)
Ok(value, remote) ==
    [ok |-> TRUE, payload |-> <<TextContent(JsonDumps(value))>>, error |-> NoFailure,
     remote |-> remote, hits |-> <<>>]
Fail(e, remote) ==
    [ok |-> FALSE, payload |-> <<>>, error |-> ToolFailure(e), remote |-> remote,
     hits |-> <<>>]

\* ---- confluence tools
\* one result of confluence.cql: its content type and id
CqlListings == SeqsUpTo([isPage : BOOLEAN, id : {"h1", "h2"}], MaxHits)

SearchHitDocument(r) ==
    [page_content |-> <<"excerpt", r.id>>,
     metadata |-> [page_id |-> r.id, title |-> <<"title", r.id>>, type |-> "page"]]

\* ConfluenceManager.search: a failing remote search is logged and gives []
ConfluenceSearch(remoteFails, results) ==
    IF remoteFails THEN <<>>
    ELSE LET shown == SelectSeq(results, LAMBDA r : r.isPage)
         IN [i \in 1 .. Len(shown) |-> SearchHitDocument(shown[i])]

ConfluenceHitSummary(doc) ==
    [page_id |-> doc.metadata.page_id, title |-> doc.metadata.title,
     type |-> doc.metadata.type, excerpt |-> doc.page_content]

ToolConfluenceSearch(args, remoteFails, results) ==
    LET limit == EffectiveLimit(args)
    IN IF "query" \notin args.keys THEN Fail(KeyError("query"), <<>>)
       ELSE LET documents == ConfluenceSearch(remoteFails, results)
                remote == <<Call("confluence", "cql", limit)>>
            IN Ok([i \in 1 .. Len(documents) |-> ConfluenceHitSummary(documents[i])],
                  IF remoteFails THEN Answered(remote, "raised") ELSE remote)

ToolConfluenceGetPage(args, remoteFails, page) ==
    IF "page_id" \notin args.keys THEN Fail(KeyError("page_id"), <<>>)
    ELSE LET remote == <<Call("confluence", "get_page_by_id", 0)>>
         IN IF remoteFails \/ ~page.exists
            THEN Fail(RemoteFailure("get_page_by_id"), Answered(remote, "raised"))
            ELSE LET doc == PageDocument(PageId, page)
                     include_metadata == IF "include_metadata" \in args.keys
                                         THEN args.include_metadata ELSE TRUE
                 IN IF include_metadata
                    THEN Ok([content |-> doc.page_content, metadata |-> doc.metadata], remote)
                    ELSE Ok([content |-> doc.page_content], remote)

CommentListings == SeqsUpTo({"c1", "c2"}, MaxHits)
FormattedComment(c) ==
    [author |-> <<"editor", c>>, created |-> <<"when", c>>, content |-> <<"markdown", c>>]

\* failAt: 0 no remote call fails, 1 the page fetch, 2 the comment listing
ToolConfluenceGetComments(args, failAt, page, comments) ==
    IF "page_id" \notin args.keys THEN Fail(KeyError("page_id"), <<>>)
    ELSE IF failAt = 1 \/ ~page.exists
    THEN Fail(RemoteFailure("get_page_by_id"),
              Answered(<<Call("confluence", "get_page_by_id", 0)>>, "raised"))
    ELSE LET remote == <<Call("confluence", "get_page_by_id", 0),
                         Call("confluence", "get_page_comments", 0)>>
         IN IF failAt = 2 THEN Fail(RemoteFailure("get_page_comments"),
                                     Answered(remote, "raised"))
            ELSE Ok([i \in 1 .. Len(comments) |-> FormattedComment(comments[i])], remote)

\* ---- create/update tools: the branch evaluates the request class name
\* first; a name the module does not bind raises NameError there
ToolCreateOrUpdate(name, args) ==
    IF RequestClass(name) \notin ModuleNames
    THEN {Fail(NameError(RequestClass(name)), <<>>)}
    ELSE {}

\* ---- jira tools
ToolJiraGetIssue(v, cat, args, key, remoteFails) ==
    IF "issue_key" \notin args.keys THEN Fail(KeyError("issue_key"), <<>>)
    ELSE LET remote == <<Call("jira", "issue", 0)>>
         IN IF remoteFails THEN Fail(RemoteFailure("issue"), Answered(remote, "raised"))
            ELSE LET doc == IssueDocument(v, cat, key, RemoteIssueOf(key))
                 IN Ok([content |-> doc.page_content, metadata |-> doc.metadata], remote)

JqlListings == SeqsUpTo({"DEV-1", "DEV-2"}, MaxHits)

\* variant that also cuts a content of exactly the excerpt length
Excerpt_Inclusive(content) ==
    IF content.len >= ExcerptChars
    THEN [of |-> content, chars |-> ExcerptChars, ellipsis |-> TRUE]
    ELSE [of |-> content, chars |-> content.len, ellipsis |-> FALSE]

\* doc.page_content[:500] + "..." if len(doc.page_content) > 500 else doc.page_content
Excerpt(content) ==
    IF content.len > ExcerptChars
    THEN [of |-> content, chars |-> ExcerptChars, ellipsis |-> TRUE]
    ELSE [of |-> content, chars |-> content.len, ellipsis |-> FALSE]

IssueSummary(doc) ==
    [key |-> doc.metadata.key, title |-> doc.metadata.title, type |-> doc.metadata.type,
     status |-> doc.metadata.status, created_date |-> doc.metadata.created_date]

JiraSearchSummary(doc) ==
    [key |-> doc.metadata.key, title |-> doc.metadata.title, type |-> doc.metadata.type,
     status |-> doc.metadata.status, created_date |-> doc.metadata.created_date,
     excerpt |-> Excerpt(doc.page_content)]

\* JiraManager.search_issues: the query, then one get_issue per hit; failAt:
\* 0 nothing fails, 1 the query, i + 1 the fetch of hit i.  Any failure
\* is re-raised.
\* variant that logs a failing fetch and goes on with the next hit
SearchIssues_Partial(v, cat, limit, hits, failAt) ==
    LET query == <<Call("jira", "jql", limit)>>
        remote == query \o [i \in 1 .. Len(hits) |-> Call("jira", "issue", 0)]
        kept == SelectSeq(hits, LAMBDA k : \E i \in 1 .. Len(hits) : hits[i] = k /\ i # failAt - 1)
    IN IF failAt = 1 THEN [ok |-> FALSE, docs |-> <<>>, error |-> RemoteFailure("jql"),
                           remote |-> Answered(query, "raised")]
       ELSE [ok |-> TRUE,
             docs |-> [i \in 1 .. Len(kept) |-> IssueDocument(v, cat, kept[i], RemoteIssueOf(kept[i]))],
             error |-> NoExc,
             remote |-> IF failAt >= 2 /\ failAt - 1 <= Len(hits)
                        THEN [remote EXCEPT ![failAt].answer = "raised"] ELSE remote]

SearchIssues(v, cat, limit, hits, failAt) ==
    LET query == <<Call("jira", "jql", limit)>>
        fetched == IF failAt >= 2 THEN Min(failAt - 1, Len(hits)) ELSE Len(hits)
        remote == query \o [i \in 1 .. fetched |-> Call("jira", "issue", 0)]
    IN IF failAt = 1 THEN [ok |-> FALSE, docs |-> <<>>, error |-> RemoteFailure("jql"),
                           remote |-> Answered(query, "raised")]
       ELSE IF failAt >= 2 /\ failAt - 1 <= Len(hits)
       THEN [ok |-> FALSE, docs |-> <<>>, error |-> RemoteFailure("issue"),
             remote |-> Answered(remote, "raised")]
       ELSE [ok |-> TRUE,
             docs |-> [i \in 1 .. Len(hits) |-> IssueDocument(v, cat, hits[i], RemoteIssueOf(hits[i]))],
             error |-> NoExc, remote |-> remote]

ToolJiraSearch(v, cat, args, hits, failAt) ==
    LET limit == EffectiveLimit(args)
    IN IF "jql" \notin args.keys THEN Fail(KeyError("jql"), <<>>)
       ELSE LET r == SearchIssues(v, cat, limit, hits, failAt)
                out == IF r.ok
                       THEN Ok([i \in 1 .. Len(r.docs) |-> JiraSearchSummary(r.docs[i])],
                               r.remote)
                       ELSE Fail(r.error, r.remote)
            IN [out EXCEPT !.hits = IF failAt = 1 THEN <<>> ELSE hits]

ToolJiraGetProjectIssues(v, cat, args, hits, failAt) ==
    LET limit == EffectiveLimit(args)
    IN IF "project_key" \notin args.keys THEN Fail(KeyError("project_key"), <<>>)
       ELSE LET r == SearchIssues(v, cat, limit, hits, failAt)
                out == IF r.ok
                       THEN Ok([i \in 1 .. Len(r.docs) |-> IssueSummary(r.docs[i])], r.remote)
                       ELSE Fail(r.error, r.remote)
            IN [out EXCEPT !.hits = IF failAt = 1 THEN <<>> ELSE hits]

\* the if/elif chain of call_tool: the branch a name selects
Dispatch_Default(name) == IF name \in Tools THEN name ELSE "jira_get_project_issues"
Dispatch(name) == IF name \in Tools THEN name ELSE "unknown"

\* every outcome call_tool can have for a name and an argument bag, over
\* the answers the remote services may give
ToolOutcomes(v, cat, page, name, args) ==
    LET branch == Dispatch(name)
    IN CASE branch = "confluence_search" ->
              {ToolConfluenceSearch(args, f, r) : f \in BOOLEAN, r \in CqlListings}
         [] branch = "confluence_get_page" ->
              {ToolConfluenceGetPage(args, f, page) : f \in BOOLEAN}
         [] branch = "confluence_get_comments" ->
              {ToolConfluenceGetComments(args, f, page, c) : f \in 0 .. 2, c \in CommentListings}
         [] branch \in CreateUpdateTools -> ToolCreateOrUpdate(branch, args)
         [] branch = "jira_get_issue" ->
              {ToolJiraGetIssue(v, cat, args, k, f) : k \in {"DEV-1", "DEV-2"}, f \in BOOLEAN}
         [] branch = "jira_search" ->
              {ToolJiraSearch(v, cat, args, h, f) : h \in JqlListings, f \in 0 .. MaxHits + 1}
         [] branch = "jira_get_project_issues" ->
              {ToolJiraGetProjectIssues(v, cat, args, h, f) :
                  h \in JqlListings, f \in 0 .. MaxHits + 1}
         [] OTHER -> {Fail(Exc("ValueError", "Unknown tool: {}", <<name>>, <<>>), <<>>)}

NoToolOut == [called |-> FALSE, name |-> "",
              args |-> [keys |-> {}, limit |-> 0, include_metadata |-> TRUE], ok |-> FALSE,
              payload |-> <<>>, error |-> NoFailure, remote |-> <<>>, hits |-> <<>>]

CallTool ==
    /\ constructed
    /\ ~toolOut.called /\ ~resOut.called /\ ~mgrOut.called
    /\ \E name \in ToolNames :
       \E keys \in SUBSET ArgNames(name) :
       \E lim \in (IF "limit" \in keys THEN LimitArgs ELSE {0}),
          im \in (IF "include_metadata" \in keys THEN BOOLEAN ELSE {TRUE}) :
          LET args == [keys |-> keys, limit |-> lim, include_metadata |-> im]
          IN \E out \in ToolOutcomes(variant, catalog, pages[PageId], name, args) :
                toolOut' = [called |-> TRUE, name |-> name, args |-> args, ok |-> out.ok,
                            payload |-> out.payload, error |-> out.error,
                            remote |-> out.remote, hits |-> out.hits]
    /\ UNCHANGED <<variant, discovery, mgrOut, catalog, constructed, lookup, built, pages, upd, resOut>>

\* ------------------------------------------------ server.py: read_resource
\* str(uri): a scheme followed by at most MaxPathTokens tokens
Uris == {<<sch>> \o path : sch \in {"confluence://", "jira://", "ftp://"},
                           path \in SeqsUpTo({"/", "DEV", "pages", "issues"}, MaxPathTokens)}

\* str.replace(old, ""): every occurrence of the token goes
Replace(s, old) == SelectSeq(s, LAMBDA t : t # old)

\* str.split(sep): the pieces between separators, empty pieces included
RECURSIVE Split(_, _)
Split(s, sep) ==
    IF \A i \in 1 .. Len(s) : s[i] # sep THEN <<s>>
    ELSE LET k == CHOOSE i \in 1 .. Len(s) : s[i] = sep /\ \A j \in 1 .. i - 1 : s[j] # sep
         IN <<SubSeq(s, 1, k - 1)>> \o Split(SubSeq(s, k + 1, Len(s)), sep)

\* methods the class ConfluenceManager defines
ConfluenceManagerMethods == {"__init__", "_process_html_content", "get_spaces",
                             "get_page_content", "get_page_by_title", "get_space_pages",
                             "get_page_comments", "search", "create_page", "update_page"}
AttributeError(attr) ==
    Exc("AttributeError", "'ConfluenceManager' object has no attribute '{}'", <<attr>>, <<>>)

\* listed: the page ids the remote space listing returned (empty for other reads)
ResOk(blocks, remote) ==
    [ok |-> TRUE, content |-> blocks, error |-> NoExc, remote |-> remote, listed |-> <<>>]
ResFail(e, remote) ==
    [ok |-> FALSE, content |-> <<>>, error |-> e, remote |-> remote, listed |-> <<>>]

SpaceListings == SeqsUpTo({"p1", "p2"}, MaxHits)

\* f"# {doc.metadata['title']}\n\n{doc.page_content}\n---"
SpacePageBlock(pid) == [heading |-> <<"title", pid>>, page |-> <<"cleaned", pid>>]

\* read_resource on confluence://{space}: get_space_pages cleans each page
\* with self._clean_html_content (clean_html defaults to True)
ReadSpace(remoteFails, listing) ==
    LET remote == <<Call("confluence", "get_all_pages_from_space", 10)>>
    IN IF remoteFails THEN ResFail(RemoteFailure("get_all_pages_from_space"),
                                  Answered(remote, "raised"))
       ELSE IF listing # <<>> /\ "_clean_html_content" \notin ConfluenceManagerMethods
       THEN [ResFail(AttributeError("_clean_html_content"), remote) EXCEPT !.listed = listing]
       ELSE [ResOk([i \in 1 .. Len(listing) |-> SpacePageBlock(listing[i])], remote)
                EXCEPT !.listed = listing]

\* get_page_by_title: answer is "fail", "none" or "page"; every exception
\* inside it, the missing _clean_html_content included, is logged and gives None
GetPageByTitle(answer) ==
    IF answer = "fail" \/ answer = "none" THEN [isNone |-> TRUE, pid |-> ""]
    ELSE IF "_clean_html_content" \notin ConfluenceManagerMethods
    THEN [isNone |-> TRUE, pid |-> ""]
    ELSE [isNone |-> FALSE, pid |-> "p1"]

ReadPage(title, answer) ==
    LET remote == Answered(<<Call("confluence", "get_page_by_title", 0)>>,
                           CASE answer = "fail" -> "raised"
                             [] answer = "none" -> "none"
                             [] OTHER -> "ok")
        doc == GetPageByTitle(answer)
    IN IF doc.isNone THEN ResFail(Exc("ValueError", "Page not found: {}", title, <<>>), remote)
       ELSE ResOk(<<[single |-> <<"cleaned", doc.pid>>]>>, remote)

\* f"# {issue.metadata['key']}: {issue.metadata['title']}\n\n{issue.page_content}\n---"
IssueBlock(doc) == [key |-> doc.metadata.key, title |-> doc.metadata.title,
                    issue |-> doc.page_content]

\* get_project_issues(project_key): limit keeps its default 50
ReadProject(v, cat, hits, failAt) ==
    LET r == SearchIssues(v, cat, LimitCap, hits, failAt)
    IN IF r.ok THEN ResOk([i \in 1 .. Len(r.docs) |-> IssueBlock(r.docs[i])], r.remote)
       ELSE ResFail(r.error, r.remote)

ReadIssue(v, cat, remoteFails) ==
    LET remote == <<Call("jira", "issue", 0)>>
    IN IF remoteFails THEN ResFail(RemoteFailure("issue"), Answered(remote, "raised"))
       ELSE ResOk(<<[content |-> IssueDocument(v, cat, "DEV-1", RemoteIssueOf("DEV-1")).page_content]>>,
                  remote)

InvalidResource(uri) == ResFail(Exc("ValueError", "Invalid resource URI: {}", uri, <<>>), <<>>)

\* the path test of the single-page and single-issue branches: len(parts) >= 3
LongEnough_Exactly(parts) == Len(parts) = 3
LongEnough(parts) == Len(parts) >= 3

\* every outcome read_resource can have for a URI
ResourceOutcomes(v, cat, uri) ==
    IF StartsWith(uri, "confluence://")
    THEN LET parts == Split(Replace(uri, "confluence://"), "/")
         IN IF Len(parts) = 1
            THEN {ReadSpace(f, l) : f \in BOOLEAN, l \in SpaceListings}
            ELSE IF LongEnough(parts) /\ parts[2] = <<"pages">>
            THEN {ReadPage(parts[3], a) : a \in {"fail", "none", "page"}}
            ELSE {InvalidResource(uri)}
    ELSE IF StartsWith(uri, "jira://")
    THEN LET parts == Split(Replace(uri, "jira://"), "/")
         IN IF Len(parts) = 1
            THEN {ReadProject(v, cat, h, f) : h \in JqlListings, f \in 0 .. MaxHits + 1}
            ELSE IF LongEnough(parts) /\ parts[2] = <<"issues">>
            THEN {ReadIssue(v, cat, f) : f \in BOOLEAN}
            ELSE {InvalidResource(uri)}
    ELSE {InvalidResource(uri)}

NoResOut == [called |-> FALSE, uri |-> <<>>, ok |-> FALSE, content |-> <<>>,
             error |-> NoExc, remote |-> <<>>, listed |-> <<>>]

ReadResource ==
    /\ constructed
    /\ ~resOut.called /\ ~toolOut.called /\ ~mgrOut.called
    /\ \E uri \in Uris :
       \E out \in ResourceOutcomes(variant, catalog, uri) :
          resOut' = [called |-> TRUE, uri |-> uri, ok |-> out.ok, content |-> out.content,
                     error |-> out.error, remote |-> out.remote, listed |-> out.listed]
    /\ UNCHANGED <<variant, discovery, mgrOut, catalog, constructed, lookup, built, pages, upd, toolOut>>

\* the text or the exception went back to the host
ResourceReturn ==
    /\ resOut.called
    /\ resOut' = NoResOut
    /\ UNCHANGED <<variant, discovery, mgrOut, catalog, constructed, lookup, built, pages, upd, toolOut>>

\* ------------------------------------------------------------------ system
Init ==
    /\ variant \in Variants
    /\ catalog = CUSTOM_FIELD_MAPPINGS(variant)
    /\ constructed = FALSE
    /\ discovery = [status |-> "pending", fields |-> <<>>]
    /\ lookup = NoLookup
    /\ built = NotBuilt
    /\ pages = [p \in {PageId} |-> [NoPage EXCEPT !.exists = TRUE]]
    /\ upd = IdleUpd
    /\ toolOut = NoToolOut
    /\ resOut = NoResOut
    /\ mgrOut = NoMgrOut

NextTypes == Construct
SpecTypes == Init /\ [][NextTypes]_vars

NextCatalog == JiraManagerInit \/ JiraManagerReturn \/ ResolveField
SpecCatalog == Init /\ [][NextCatalog]_vars

\* the payload or the failure went back to the host; the next request may come
ToolReturn ==
    /\ toolOut.called
    /\ toolOut' = NoToolOut
    /\ UNCHANGED <<variant, discovery, mgrOut, catalog, constructed, lookup, built, pages, upd, resOut>>

NextRouter == JiraManagerInit \/ JiraManagerReturn \/ CallTool \/ ToolReturn
SpecRouter == Init /\ [][NextRouter]_vars

NextResource == JiraManagerInit \/ JiraManagerReturn \/ ReadResource \/ ResourceReturn
SpecResource == Init /\ [][NextResource]_vars

\* the server as its host drives it: tool invocations and resource reads,
\* one handler at a time (no handler awaits between its first and last step)
NextServer == JiraManagerInit \/ JiraManagerReturn \/ CallTool \/ ToolReturn
              \/ ReadResource \/ ResourceReturn
SpecServer == Init /\ [][NextServer]_vars

NextManager == JiraManagerInit \/ JiraManagerReturn \/ CreateIssueCall \/ UpdateIssueCall
               \/ CreatePageCall \/ MgrReturn
SpecManager == Init /\ [][NextManager]_vars

\* every way in: the host's tool invocations and resource reads and a
\* caller's direct manager calls, all on the one thread of the process
NextInvocations == JiraManagerInit \/ JiraManagerReturn \/ CallTool \/ ToolReturn
                   \/ ReadResource \/ ResourceReturn \/ CreateIssueCall
                   \/ UpdateIssueCall \/ CreatePageCall \/ MgrReturn
SpecInvocations == Init /\ [][NextInvocations]_vars

NextPage == UpdatePageFetch \/ UpdatePageWrite \/ UpdatePageReturn \/ UpdatePageDone \/ OtherWriter
SpecPage == Init /\ [][NextPage]_vars

\* ------------------------------------------------------------------ claims

\* C1: an update_page call whose requested version differs from the version
\* the remote reported ends in the version-conflict error carrying both
\* numbers, and its only remote call is the fetch: no update call is issued.
C1_VersionConflictNoWrite ==
    (upd.fetched /\ upd.cur # upd.req.version) =>
        /\ upd.pc = "done"
        /\ ~upd.result.ok
        /\ upd.result.error.exc = "ValueError"
        /\ upd.result.error.text =
             "Version conflict: current version is {}, but update requested for version {}"
        /\ upd.result.error.ints = <<upd.cur, upd.req.version>>
        /\ upd.calls = <<"get_page_by_id">>
        /\ ~upd.wrote

C1_Witness ==
    /\ upd.pc = "done" /\ upd.fetched /\ upd.cur = 2 /\ upd.req.version = 1
    /\ ~upd.result.ok

\* C2: whenever update_page has applied its write, the version the caller
\* expected equals the version the remote page had when the write was applied.
C2_WriteOnlyOnExpectedVersion ==
    upd.wrote => upd.req.version = upd.verAtWrite

\* C3: constructing an Epic request with a non-empty epic-link fails and
\* produces no request object.
C3_EpicWithLinkFails ==
    (built.called /\ built.args.issue_type = "Epic" /\ built.args.epic_link \notin {None, ""}) =>
        /\ ~built.ok
        /\ built.obj = NoIssueCreate
        /\ built.error.exc = "ValueError"

C3_Witness ==
    /\ built.called /\ built.args.issue_type = "Epic" /\ built.args.epic_link = "DEV-1"
    /\ ~built.ok /\ built.error.text = "Epic issues cannot have an epic_link"

\* C4: construction fails, with no object, for every issue type other than
\* Epic and Story; every Story and every Epic without an epic-link constructs.
C4_IssueTypeValidated ==
    built.called =>
        /\ (built.args.issue_type \notin {"Epic", "Story"} =>
                ~built.ok /\ built.obj = NoIssueCreate /\ built.error.exc = "ValueError")
        /\ (built.args.issue_type = "Story" => built.ok)
        /\ ((built.args.issue_type = "Epic" /\ built.args.epic_link = None) => built.ok)
        /\ (built.ok => built.obj.issue_type = built.args.issue_type)

C4_Witness ==
    /\ built.called /\ built.args.issue_type = "Bug" /\ ~built.ok
    /\ built.error.text = "issue_type must be either 'Epic' or 'Story'"

\* C5: a constructed request whose custom-fields argument was None holds the
\* empty mapping; a supplied non-empty mapping is kept as given.
C5_CustomFieldsDefault ==
    (built.called /\ built.ok) =>
        /\ (built.args.custom_fields.isNone => built.obj.custom_fields = SomeDict(EmptyDict))
        /\ (TruthyDict(built.args.custom_fields) =>
                built.obj.custom_fields = built.args.custom_fields)

C5_Witness ==
    built.called /\ built.ok /\ built.args.custom_fields.isNone
    /\ built.obj.custom_fields = SomeDict(EmptyDict)

\* C6: resolving a name that is not a key of the catalog returns None,
\* resolving a key returns the identifier stored for it, and the catalog is
\* the same after the call as before it.
C6_ResolveTotal ==
    lookup.called =>
        /\ catalog = lookup.before
        /\ (lookup.name \notin DOMAIN lookup.before => lookup.result = NotFound)
        /\ (lookup.name \in DOMAIN lookup.before =>
                lookup.result = Found(lookup.before[lookup.name]))

C6_Witness ==
    /\ lookup.called
    /\ StartsWith(lookup.name, "customfield_")
    /\ lookup.name \notin DOMAIN catalog
    /\ lookup.result = NotFound

Clamp(n, lo, hi) == IF n < lo THEN lo ELSE IF n > hi THEN hi ELSE n

\* C7: the limit a search tool passes to the remote search is its integer
\* limit argument clamped into [1, 50], and 10 when the argument is absent.
C7_LimitClampedBothEnds ==
    (/\ toolOut.called /\ toolOut.name \in SearchTools /\ toolOut.remote # <<>>
     /\ ("limit" \in toolOut.args.keys => IsInteger(toolOut.args.limit))) =>
        toolOut.remote[1].limit =
            IF "limit" \in toolOut.args.keys
            THEN Clamp(toolOut.args.limit \div 2, 1, 50)
            ELSE 10

\* C8: a tool name outside the registry ends in the execution failure
\* carrying 'Unknown tool: <name>', with no payload and no remote call.
C8_UnknownToolFails ==
    (toolOut.called /\ toolOut.name \notin Tools) =>
        /\ ~toolOut.ok
        /\ toolOut.payload = <<>>
        /\ toolOut.error.exc = "RuntimeError"
        /\ toolOut.error.prefix = "Tool execution failed: "
        /\ toolOut.error.text = "Unknown tool: {}"
        /\ toolOut.error.strs = <<toolOut.name>>
        /\ toolOut.remote = <<>>

C8_Witness ==
    /\ toolOut.called /\ toolOut.name = "jira_delete_issue" /\ ~toolOut.ok
    /\ toolOut.error.text = "Unknown tool: {}"

\* the four URI shapes of the resource surface
IsResourceShape(uri) ==
    LET segs == Split(Tail(uri), "/")
    IN \/ /\ uri[1] = "confluence://"
          /\ (Len(segs) = 1 \/ (Len(segs) = 3 /\ segs[2] = <<"pages">>))
       \/ /\ uri[1] = "jira://"
          /\ (Len(segs) = 1 \/ (Len(segs) = 3 /\ segs[2] = <<"issues">>))

\* C9: read_resource rejects, with the invalid-resource error and without a
\* remote call, every URI that is not one of confluence://{space},
\* confluence://{space}/pages/{title}, jira://{project}, jira://{project}/issues/{key}.
C9_OtherShapesRejected ==
    (resOut.called /\ ~IsResourceShape(resOut.uri)) =>
        /\ ~resOut.ok
        /\ resOut.error.text = "Invalid resource URI: {}"
        /\ resOut.remote = <<>>

\* C10: a create/update tool called with its required arguments, no remote
\* call failing, returns exactly one JSON text payload holding both the
\* content and the metadata of the resulting Document.
C10_CreateUpdateReturnsDocument ==
    (/\ toolOut.called /\ toolOut.name \in CreateUpdateTools
     /\ RequiredArgs(toolOut.name) \subseteq toolOut.args.keys
     /\ toolOut.error.text # "remote call failed: {}") =>
        /\ toolOut.ok
        /\ Len(toolOut.payload) = 1
        /\ toolOut.payload[1].type = "text"
        /\ {"content", "metadata"} \subseteq DOMAIN toolOut.payload[1].text.json

\* C17: whenever discovery has failed, because the listing call failed or
\* because processing an entry failed partway, construction goes on to
\* return and the catalog holds exactly the built-in seed entries.
C17_FailedDiscoveryKeepsSeed ==
    discovery.status = "failed"
        => (ENABLED JiraManagerReturn /\ catalog = CUSTOM_FIELD_MAPPINGS(variant))

\* the field is custom and its id is in canonical form
Canonical(f) == f.custom /\ StartsWith(f.id, "customfield_")

\* C19: after a successful discovery pass, for every custom field of the
\* listing whose id is in canonical form, resolving its display name and
\* resolving its raw id both return that id.
C19_NameAndIdResolve ==
    discovery.status = "ok" =>
        \A i \in 1 .. Len(discovery.fields) :
            LET f == discovery.fields[i]
            IN Canonical(f) =>
                  /\ GetCustomFieldId(variant, catalog, f.name) = Found(f.id)
                  /\ GetCustomFieldId(variant, catalog, f.id) = Found(f.id)

\* positions of the calls of the last manager call that change the remote system
MutatingCalls == {i \in DOMAIN mgrOut.calls : mgrOut.calls[i].op \in MutatingOps}

\* the last manager call was create_issue for a request of type t whose
\* project the remote knows
CreatedOfType(t) ==
    /\ mgrOut.called /\ mgrOut.op = "create_issue"
    /\ mgrOut.request.issue_type = t
    /\ mgrOut.calls[1].answer = "ok"

\* C11: create_issue on an Epic request whose project exists issues exactly
\* one remote create call, whose field set has issue type Epic and, when
\* 'Epic Name' resolves, carries the request's summary under the resolved
\* identifier; the returned Document's metadata type is Epic.
C11_EpicCarriesSummary ==
    CreatedOfType("Epic") =>
        /\ Cardinality(MutatingCalls) = 1
        /\ mgrOut.sent.d[<<"issuetype">>] = "Epic"
        /\ ~GetCustomFieldId(variant, catalog, EpicName).isNone
              => mgrOut.sent.d[FieldId(variant, catalog, EpicName)] = mgrOut.request.summary
        /\ mgrOut.ok => mgrOut.doc.metadata.type = "Epic"

\* C14: create_issue on a Story with an epic link looks the linked key up
\* before the create call; if the linked issue is missing or not an Epic the
\* call fails with the invalid-epic-link error and no create call is issued;
\* if it is an Epic and 'Epic Link' resolves, the link is sent under the
\* resolved identifier.
C14_EpicLinkValidated ==
    (CreatedOfType("Story") /\ mgrOut.request.epic_link \notin {None, ""}) =>
        /\ Len(mgrOut.calls) >= 2 /\ mgrOut.calls[2].op = "issue"
        /\ \A i \in MutatingCalls : i > 2
        /\ mgrOut.calls[2].answer \in {"none", "Story"}
              => /\ ~mgrOut.ok
                 /\ mgrOut.error = Exc("ValueError", "Invalid epic link: {}",
                                       <<mgrOut.request.epic_link>>, <<>>)
                 /\ MutatingCalls = {}
        /\ (mgrOut.calls[2].answer = "Epic"
               /\ ~GetCustomFieldId(variant, catalog, EpicLink).isNone)
              => /\ MutatingCalls # {}
                 /\ mgrOut.sent.d[FieldId(variant, catalog, EpicLink)]
                       = mgrOut.request.epic_link

\* C15: create_issue for an unknown project, create_page for an unknown
\* space and update_issue for an unknown issue each fail, with the
\* does-not-exist error, without issuing any create or update call; the
\* existence lookup is the first remote call of each.
C15_ExistenceBeforeWrite ==
    mgrOut.called =>
        /\ mgrOut.calls[1].op \in {"project", "get_space", "issue"}
        /\ mgrOut.calls[1].answer = "none"
              => /\ ~mgrOut.ok
                 /\ mgrOut.error.exc = "ValueError"
                 /\ mgrOut.error.strs \in {<<"DEV">>, <<"DEV-2">>}
                 /\ MutatingCalls = {}

C15_Witness ==
    /\ mgrOut.called /\ mgrOut.op = "update_issue"
    /\ mgrOut.calls[1].answer = "none" /\ ~mgrOut.ok

\* the custom-field names the last create_issue or update_issue was given
Supplied ==
    IF mgrOut.op = "create_issue" THEN mgrOut.request.custom_fields.d
    ELSE mgrOut.request.fields

\* the identifiers the supplied names resolve to
ResolvedIds == {FieldId(variant, catalog, n) : n \in ResolvingNames(variant, catalog, Supplied)}

\* keys create_issue sets by itself: the standard fields and the
\* type-specific 'Epic Name' / 'Epic Link' identifier
OwnKeys ==
    IF mgrOut.op = "create_issue"
    THEN StandardKeys \cup {FieldId(variant, catalog, n) :
                               n \in ResolvingNames(variant, catalog,
                                                    [m \in {EpicName, EpicLink} |-> ""])}
    ELSE {}

\* every resolving name is sent under its identifier with a supplied value
ResolvedSent ==
    \A n \in ResolvingNames(variant, catalog, Supplied) :
        LET id == FieldId(variant, catalog, n)
        IN /\ id \in DOMAIN mgrOut.sent.d
           /\ \E m \in DOMAIN Supplied :
                 /\ GetCustomFieldId(variant, catalog, m) = Found(id)
                 /\ mgrOut.sent.d[id] = Supplied[m]

FieldSetSent ==
    /\ mgrOut.called /\ mgrOut.op \in {"create_issue", "update_issue"}
    /\ ~mgrOut.sent.isNone

\* C16 as stated: on creation and on update a resolving name is sent under
\* its identifier and a name that fails to resolve appears under no key.
C16_UnresolvedDropped ==
    FieldSetSent =>
        /\ ResolvedSent
        /\ DOMAIN mgrOut.sent.d \subseteq (OwnKeys \cup ResolvedIds)

\* C16 (amended): on creation as stated; on update a resolving name is sent
\* under its identifier and a name that fails to resolve is sent as a
\* standard field under its lower-cased name.
C16_UnresolvedDroppedOnCreate ==
    FieldSetSent =>
        /\ ResolvedSent
        /\ mgrOut.op = "create_issue"
              => DOMAIN mgrOut.sent.d \subseteq (OwnKeys \cup ResolvedIds)
        /\ mgrOut.op = "update_issue"
              => DOMAIN mgrOut.sent.d
                    = ResolvedIds \cup {Lower(n) : n \in (DOMAIN Supplied)
                                           \ ResolvingNames(variant, catalog, Supplied)}

C16_Witness ==
    /\ FieldSetSent /\ mgrOut.op = "update_issue" /\ mgrOut.ok
    /\ Sprint \in ResolvingNames(variant, catalog, Supplied)
    /\ <<"Nope">> \in DOMAIN Supplied
    /\ <<"nope">> \in DOMAIN mgrOut.sent.d

\* C12: in every jira_search result the excerpt is the issue's content
\* unchanged when it has at most 500 characters, and otherwise exactly its
\* first 500 characters followed by '...'.
C12_ExcerptCut ==
    (toolOut.called /\ toolOut.name = "jira_search" /\ toolOut.ok) =>
        LET hits == toolOut.payload[1].text.json
        IN \A i \in 1 .. Len(hits) :
              LET content == IssueDocument(variant, catalog, hits[i].key,
                                           RemoteIssueOf(hits[i].key)).page_content
                  e == hits[i].excerpt
              IN /\ e.of = content
                 /\ content.len <= 500 => (e.chars = content.len /\ ~e.ellipsis)
                 /\ content.len > 500 => (e.chars = 500 /\ e.ellipsis)

C12_Witness ==
    /\ toolOut.called /\ toolOut.name = "jira_search" /\ toolOut.ok
    /\ Len(toolOut.payload[1].text.json) = 2
    /\ toolOut.payload[1].text.json[1].excerpt.ellipsis
    /\ toolOut.payload[1].text.json[1].excerpt.of.len = 600
    /\ ~toolOut.payload[1].text.json[2].excerpt.ellipsis
    /\ toolOut.payload[1].text.json[2].excerpt.of.len = 500

\* C13: every call_tool invocation ends either in a list of exactly one
\* textual JSON payload or in the uniform 'Tool execution failed: ' failure
\* with no payload; it is the failure whenever a required argument is
\* missing or a remote call raised.
C13_PayloadOrFailure ==
    toolOut.called =>
        /\ \/ /\ toolOut.ok /\ Len(toolOut.payload) = 1
              /\ toolOut.payload[1].type = "text" /\ toolOut.error = NoFailure
           \/ /\ ~toolOut.ok /\ toolOut.payload = <<>>
              /\ toolOut.error.exc = "RuntimeError"
              /\ toolOut.error.prefix = "Tool execution failed: "
        /\ (toolOut.name \in Tools /\ ~(RequiredArgs(toolOut.name) \subseteq toolOut.args.keys))
              => ~toolOut.ok
        /\ (\E i \in DOMAIN toolOut.remote : toolOut.remote[i].answer = "raised")
              => (~toolOut.ok /\ toolOut.payload = <<>>)

\* the URI has the shape confluence://{space}/pages/{title}
IsPageUri(uri) ==
    LET segs == Split(Tail(uri), "/")
    IN uri[1] = "confluence://" /\ Len(segs) = 3 /\ segs[2] = <<"pages">>

\* C20: read_resource on confluence://{space}/pages/{title} returns the
\* page's content whenever the remote lookup found the page, and fails with
\* the not-found error only when the remote knows no page with that title.
C20_PageReadReturnsContent ==
    (resOut.called /\ IsPageUri(resOut.uri)) =>
        /\ resOut.remote[1].answer = "ok" => resOut.ok
        /\ (~resOut.ok /\ resOut.error.text = "Page not found: {}")
              => resOut.remote[1].answer = "none"

\* every name of the built-in seed resolves
SeedResolves ==
    \A n \in DOMAIN CUSTOM_FIELD_MAPPINGS(variant) :
        ~GetCustomFieldId(variant, catalog, n).isNone

\* C18: once construction has finished no step of a tool invocation or a
\* resource read changes the catalog; no step at all removes a name from it,
\* so every seed name resolves in every state.
C18_CatalogReadOnly ==
    /\ []SeedResolves
    /\ [][/\ constructed => catalog' = catalog
          /\ DOMAIN catalog \subseteq DOMAIN catalog']_vars

C18_Witness ==
    /\ constructed /\ catalog # CUSTOM_FIELD_MAPPINGS(variant)
    /\ resOut.called /\ resOut.ok /\ Len(resOut.remote) > 1

IsSpaceUri(uri) == uri[1] = "confluence://" /\ Len(Split(Tail(uri), "/")) = 1

\* C21: read_resource on confluence://{space}, when the remote page listing
\* succeeds, returns one block per listed page, in listing order, each block
\* being the page's title heading followed by its content; this holds for a
\* space with any number of pages, a non-empty one included.
C21_SpaceListingBlocks ==
    (resOut.called /\ IsSpaceUri(resOut.uri) /\ resOut.remote[1].answer = "ok") =>
        /\ resOut.ok
        /\ resOut.content = [i \in 1 .. Len(resOut.listed) |-> SpacePageBlock(resOut.listed[i])]

\* C22: a confluence_search invocation whose remote search call fails ends in
\* the uniform execution failure; it never returns a success payload, in
\* particular never an empty result list.
C22_SearchFailureFails ==
    (/\ toolOut.called /\ toolOut.name = "confluence_search"
     /\ toolOut.remote # <<>> /\ toolOut.remote[1].answer = "raised") =>
        /\ ~toolOut.ok /\ toolOut.payload = <<>>
        /\ toolOut.error.exc = "RuntimeError"
        /\ toolOut.error.prefix = "Tool execution failed: "

\* C23: every failure of read_resource (invalid URI shape, page not found,
\* failing remote call) leaves the router as the uniform execution failure
\* call_tool raises, carrying the original message.
C23_ResourceFailureUniform ==
    (resOut.called /\ ~resOut.ok) =>
        /\ resOut.error.exc = ToolFailure(resOut.error).exc
        /\ resOut.error.text # ""

\* the calls of a remote log that change the remote system
Mutating(log) == {i \in DOMAIN log : log[i].op \in MutatingOps}

\* C24: a read tool or a resource read issues no mutating remote call; a
\* create/update invocation, through the router or on a manager, issues at
\* most one mutating remote call, whether it succeeds or fails.
C24_ReadsNeverWriteWritesOnce ==
    /\ (toolOut.called /\ toolOut.name \in Tools \ CreateUpdateTools)
          => Mutating(toolOut.remote) = {}
    /\ (toolOut.called /\ toolOut.name \in CreateUpdateTools)
          => Cardinality(Mutating(toolOut.remote)) <= 1
    /\ resOut.called => Mutating(resOut.remote) = {}
    /\ mgrOut.called => Cardinality(Mutating(mgrOut.calls)) <= 1

C24_Witness ==
    /\ mgrOut.called /\ mgrOut.op = "create_issue" /\ ~mgrOut.ok
    /\ Cardinality(Mutating(mgrOut.calls)) = 1
    /\ mgrOut.calls[Len(mgrOut.calls)] = RemoteCall("create_issue", "raised")

\* the identifiers the catalog knows
CatalogIds == {catalog[n] : n \in DOMAIN catalog}

\* the issue carries the identifier with a value that is neither null nor ""
CarriesValue(issue, id) == id \in DOMAIN issue.custom /\ issue.custom[id] \notin {"", None}

\* C25: in the Document get_issue builds, the 'Custom Fields' section has a
\* line for a catalog field exactly when the remote issue carries that
\* field's identifier with a non-empty value; each line shows that value.
C25_LinesForNonEmptyFields ==
    (toolOut.called /\ toolOut.name = "jira_get_issue" /\ toolOut.ok) =>
        LET doc == toolOut.payload[1].text.json
            issue == RemoteIssueOf(doc.metadata.key)
            lines == doc.content.lines
        IN /\ \A id \in CatalogIds :
                 (\E n \in DOMAIN lines : catalog[n] = id) <=> CarriesValue(issue, id)
           /\ \A n \in DOMAIN lines : lines[n] = issue.custom[catalog[n]]

\* C26: jira_search and jira_get_project_issues are all-or-nothing: the
\* result holds exactly one summary per hit of the remote query, in the
\* remote's order, each from a separate per-issue fetch; if the query or any
\* per-issue fetch fails the invocation fails and returns no summary.
C26_SearchAllOrNothing ==
    (/\ toolOut.called /\ toolOut.name \in {"jira_search", "jira_get_project_issues"}
     /\ toolOut.remote # <<>>) =>
        LET log == toolOut.remote
            failed == \E i \in DOMAIN log : log[i].answer = "raised"
        IN /\ log[1].op = "jql"
           /\ \A i \in 2 .. Len(log) : log[i].op = "issue"
           /\ failed => (~toolOut.ok /\ toolOut.payload = <<>>)
           /\ ~failed =>
                 /\ toolOut.ok
                 /\ Len(log) = 1 + Len(toolOut.hits)
                 /\ LET found == toolOut.payload[1].text.json
                    IN /\ Len(found) = Len(toolOut.hits)
                       /\ \A i \in 1 .. Len(found) :
                             /\ found[i].key = toolOut.hits[i]
                             /\ found[i].title = RemoteIssueOf(toolOut.hits[i]).summary

C26_Witness ==
    /\ toolOut.called /\ toolOut.name = "jira_search"
    /\ toolOut.hits = <<"DEV-1", "DEV-2">>
    /\ Len(toolOut.remote) = 3 /\ toolOut.remote[3].answer = "raised"
    /\ ~toolOut.ok /\ toolOut.payload = <<>>

\* the last create_issue call went as far as the remote create call
CreateSent == mgrOut.called /\ mgrOut.op = "create_issue" /\ ~mgrOut.sent.isNone

\* C27: in create_issue the caller's custom fields are written into the
\* outgoing field set after the generated Epic Name and the validated Epic
\* Link: every identifier a supplied name resolves to carries a supplied
\* value, the one of 'Epic Name' and 'Epic Link' (or its raw identifier,
\* where indexed) included, and the only lookup between the project check
\* and the create call is the one of the epic_link argument.
C27_CustomFieldsWrittenLast ==
    CreateSent =>
        LET request == mgrOut.request
            custom == request.custom_fields.d
            names == ResolvingNames(variant, catalog, custom)
            linked == request.issue_type = "Story" /\ request.epic_link \notin {None, ""}
            create == CHOOSE i \in Mutating(mgrOut.calls) : TRUE
        IN /\ \A n \in names :
                 \E m \in names :
                    /\ FieldId(variant, catalog, m) = FieldId(variant, catalog, n)
                    /\ mgrOut.sent.d[FieldId(variant, catalog, n)] = custom[m]
           /\ create = IF linked THEN 3 ELSE 2
           /\ linked => mgrOut.calls[2] = RemoteCall("issue", "Epic")

C27_Witness ==
    /\ CreateSent /\ mgrOut.ok /\ variant = "ib"
    /\ mgrOut.request.issue_type = "Story" /\ mgrOut.request.epic_link = "DEV-1"
    /\ DOMAIN mgrOut.request.custom_fields.d = {CF("10019")}
    /\ mgrOut.sent.d[CF("10019")] = "v"
    /\ Len(mgrOut.calls) = 4

====
